---- MODULE Spec2Model ----
(***************************************************************************)
(* Model of tensorflow_datasets/core/registered.py: the RegisteredDataset  *)
(* metaclass, its three module-level registries and the skip_registration  *)
(* context manager.                                                        *)
(***************************************************************************)
EXTENDS Naturals, Sequences, FiniteSets

VARIABLES
  _DATASET_REGISTRY,           \* snake-cased name -> index of the class in classes
  _ABSTRACT_DATASET_REGISTRY,  \* snake-cased name -> index of the class in classes
  _IN_DEVELOPMENT_REGISTRY,    \* snake-cased name -> index of the class in classes
  _skip_registration,          \* the module-level flag
  is_notebook,                 \* what py_utils.is_notebook() answers in this process
  classes,                     \* the class objects returned by __new__, in creation order
  guards,                      \* number of skip_registration() with-blocks currently open
  raised,                      \* the ValueError that is propagating, NoError if none
  last                         \* the operation that ran last and its arguments

vars == <<_DATASET_REGISTRY, _ABSTRACT_DATASET_REGISTRY, _IN_DEVELOPMENT_REGISTRY,
          _skip_registration, is_notebook, classes, guards, raised, last>>

registries == <<_DATASET_REGISTRY, _ABSTRACT_DATASET_REGISTRY, _IN_DEVELOPMENT_REGISTRY>>

-----------------------------------------------------------------------------
(* Bounds *)

MaxClasses == 3   \* class objects created in one behaviour
MaxGuards == 2    \* nesting depth of skip_registration() blocks

-----------------------------------------------------------------------------
(* Class names and their normalisation *)

\* Declared class names, as sequences of characters.
ClassNames ==
  { <<"A", "b">>, <<"a", "B">>, <<"a", "_", "b">> }

IsUpper(c) == c \in {"A", "B"}

IsLowerOrDigit(c) == c \in {"a", "b"}

Lower(c) == IF c = "A" THEN "a" ELSE IF c = "B" THEN "b" ELSE c

\* An underscore goes before an upper-case letter that is not the first
\* character and that follows a lower-case letter or digit, or starts a
\* capitalised word (is followed by a lower-case letter or digit).
NeedsUnderscore(s, i) ==
  /\ i > 1
  /\ IsUpper(s[i])
  /\ \/ IsLowerOrDigit(s[i - 1])
     \/ (i < Len(s) /\ IsLowerOrDigit(s[i + 1]))

RECURSIVE SnakeFrom(_, _)
SnakeFrom(s, i) ==
  IF i > Len(s) THEN <<>>
  ELSE (IF NeedsUnderscore(s, i) THEN <<"_", Lower(s[i])>> ELSE <<Lower(s[i])>>)
         \o SnakeFrom(s, i + 1)

camelcase_to_snakecase(cls_name) == SnakeFrom(cls_name, 1)

-----------------------------------------------------------------------------
(* Class bodies *)

\* What a class body says about the required operation and about the
\* IN_DEVELOPMENT marker ("absent": the key is not in class_dict).
ClassDicts ==
  [ op : {"absent", "abstract", "concrete"},
    IN_DEVELOPMENT : {"absent", "True", "False"} ]

\* Tuples of base classes: none, or one class created earlier.
Bases == {<<>>} \cup { <<i>> : i \in 1..Len(classes) }

\* inspect.isabstract(builder_cls): the class declares the operation
\* abstract, or leaves unimplemented an operation that a base declares.
isabstract(bases, class_dict) ==
  \/ class_dict.op = "abstract"
  \/ /\ class_dict.op = "absent"
     /\ \E k \in 1..Len(bases) : classes[bases[k]].abstract

\* class_dict.get("IN_DEVELOPMENT") taken as a condition.
in_development(class_dict) == class_dict.IN_DEVELOPMENT = "True"

\* Mutant: the name attribute is the declared class name, not normalized.
builder_cls_RawName(cls_name, bases, class_dict) ==
  [ name |-> cls_name,
    abstract |-> isabstract(bases, class_dict),
    IN_DEVELOPMENT |-> in_development(class_dict) ]

\* The class body does not declare IN_DEVELOPMENT and the body of a base
\* sets it to true: the class has the attribute by inheritance only.
inherits_in_development(bases, class_dict) ==
  /\ class_dict.IN_DEVELOPMENT = "absent"
  /\ \E k \in 1..Len(bases) : classes[bases[k]].IN_DEVELOPMENT

\* The class object that type.__new__ builds: its name attribute, whether
\* it is abstract, and whether its own body sets IN_DEVELOPMENT.
builder_cls(cls_name, bases, class_dict) ==
  [ name |-> camelcase_to_snakecase(cls_name),
    abstract |-> isabstract(bases, class_dict),
    IN_DEVELOPMENT |-> in_development(class_dict) ]

-----------------------------------------------------------------------------
(* The collision check and the classification of __new__ *)

NoError == <<>>

ValueError(name, registered_as) == <<"Dataset with name", name, registered_as>>

\* Mutant: the abstract registry is not consulted.
CollisionCheck_NoAbstract(notebook, name, dataset, in_dev, abstract) ==
  IF notebook THEN NoError
  ELSE IF name \in DOMAIN dataset THEN ValueError(name, "already registered.")
  ELSE IF name \in DOMAIN in_dev
    THEN ValueError(name, "already registered as in development.")
  ELSE NoError

\* Mutant: only the concrete registry is consulted.
CollisionCheck_OnlyConcrete(notebook, name, dataset, in_dev, abstract) ==
  IF notebook THEN NoError
  ELSE IF name \in DOMAIN dataset THEN ValueError(name, "already registered.")
  ELSE NoError

\* Mutant: the check also runs in a notebook.
CollisionCheck_InNotebook(notebook, name, dataset, in_dev, abstract) ==
  IF name \in DOMAIN dataset THEN ValueError(name, "already registered.")
  ELSE IF name \in DOMAIN in_dev
    THEN ValueError(name, "already registered as in development.")
  ELSE IF name \in DOMAIN abstract
    THEN ValueError(name, "already registered as abstract.")
  ELSE NoError

\* Mutant: the notebook test is inverted.
CollisionCheck_OnlyInNotebook(notebook, name, dataset, in_dev, abstract) ==
  IF ~notebook THEN NoError
  ELSE IF name \in DOMAIN dataset THEN ValueError(name, "already registered.")
  ELSE IF name \in DOMAIN in_dev
    THEN ValueError(name, "already registered as in development.")
  ELSE IF name \in DOMAIN abstract
    THEN ValueError(name, "already registered as abstract.")
  ELSE NoError

\* Lines 61-70: the error the collision check raises, NoError if it passes.
CollisionCheck(notebook, name, dataset, in_dev, abstract) ==
  IF notebook THEN NoError
  ELSE IF name \in DOMAIN dataset THEN ValueError(name, "already registered.")
  ELSE IF name \in DOMAIN in_dev
    THEN ValueError(name, "already registered as in development.")
  ELSE IF name \in DOMAIN abstract
    THEN ValueError(name, "already registered as abstract.")
  ELSE NoError

\* Mutant: the skip flag is not looked at.
Classify_IgnoreSkip(skip, is_abstract, in_dev_marker) ==
  IF is_abstract THEN "_ABSTRACT_DATASET_REGISTRY"
  ELSE IF in_dev_marker THEN "_IN_DEVELOPMENT_REGISTRY"
  ELSE "_DATASET_REGISTRY"

\* Mutant: the IN_DEVELOPMENT marker is tested before abstractness.
Classify_InDevFirst(skip, is_abstract, in_dev_marker) ==
  IF skip THEN "none"
  ELSE IF in_dev_marker THEN "_IN_DEVELOPMENT_REGISTRY"
  ELSE IF is_abstract THEN "_ABSTRACT_DATASET_REGISTRY"
  ELSE "_DATASET_REGISTRY"

\* Mutant: the IN_DEVELOPMENT marker is not tested.
Classify_NoInDev(skip, is_abstract, in_dev_marker) ==
  IF skip THEN "none"
  ELSE IF is_abstract THEN "_ABSTRACT_DATASET_REGISTRY"
  ELSE "_DATASET_REGISTRY"

\* Lines 72-79: the registry that receives the class, "none" when skipped.
Classify(skip, is_abstract, in_dev_marker) ==
  IF skip THEN "none"
  ELSE IF is_abstract THEN "_ABSTRACT_DATASET_REGISTRY"
  ELSE IF in_dev_marker THEN "_IN_DEVELOPMENT_REGISTRY"
  ELSE "_DATASET_REGISTRY"

\* Mutant: the assignment rebinds the registry to a fresh one-entry dict.
SetItem_Rebind(registry, name, value) ==
  [ k \in {name} |-> value ]

\* registry[name] = value
SetItem(registry, name, value) ==
  [ k \in DOMAIN registry \cup {name} |-> IF k = name THEN value ELSE registry[k] ]

\* The class that registry[name] = value overwrites in the target registry,
\* 0 if the name is new there or nothing is assigned.
Replaced(target, name) ==
  LET registry ==
        IF target = "_ABSTRACT_DATASET_REGISTRY" THEN _ABSTRACT_DATASET_REGISTRY
        ELSE IF target = "_IN_DEVELOPMENT_REGISTRY" THEN _IN_DEVELOPMENT_REGISTRY
        ELSE IF target = "_DATASET_REGISTRY" THEN _DATASET_REGISTRY
        ELSE <<>>
  IN IF name \in DOMAIN registry THEN registry[name] ELSE 0

-----------------------------------------------------------------------------
(* Operations *)

Init ==
  /\ _DATASET_REGISTRY = <<>>
  /\ _ABSTRACT_DATASET_REGISTRY = <<>>
  /\ _IN_DEVELOPMENT_REGISTRY = <<>>
  /\ _skip_registration = FALSE
  /\ is_notebook \in BOOLEAN
  /\ classes = <<>>
  /\ guards = 0
  /\ raised = NoError
  /\ last = [op |-> "import", cls_name |-> <<>>, target |-> "none", replaced |-> 0,
              inherits |-> FALSE]

\* Lines 72-79: the assignment to the registry that Classify names.
Store(target, name, id) ==
  /\ _ABSTRACT_DATASET_REGISTRY' =
       IF target = "_ABSTRACT_DATASET_REGISTRY"
       THEN SetItem(_ABSTRACT_DATASET_REGISTRY, name, id)
       ELSE _ABSTRACT_DATASET_REGISTRY
  /\ _IN_DEVELOPMENT_REGISTRY' =
       IF target = "_IN_DEVELOPMENT_REGISTRY"
       THEN SetItem(_IN_DEVELOPMENT_REGISTRY, name, id)
       ELSE _IN_DEVELOPMENT_REGISTRY
  /\ _DATASET_REGISTRY' =
       IF target = "_DATASET_REGISTRY"
       THEN SetItem(_DATASET_REGISTRY, name, id)
       ELSE _DATASET_REGISTRY

\* Mutant: the class is stored before the collision check runs.
New_StoreThenCheck(cls_name, bases, class_dict) ==
  LET name == camelcase_to_snakecase(cls_name)
      new_cls == builder_cls(cls_name, bases, class_dict)
      error == CollisionCheck(is_notebook, name, _DATASET_REGISTRY,
                              _IN_DEVELOPMENT_REGISTRY, _ABSTRACT_DATASET_REGISTRY)
      target == Classify(_skip_registration, new_cls.abstract,
                         in_development(class_dict))
      id == Len(classes) + 1
  IN
  /\ raised = NoError
  /\ Len(classes) < MaxClasses
  /\ Store(target, name, id)
  /\ IF error # NoError
     THEN /\ raised' = error
          /\ last' = [op |-> "__new__", cls_name |-> cls_name, target |-> "none",
                       replaced |-> 0, inherits |-> FALSE]
          /\ UNCHANGED classes
     ELSE /\ raised' = NoError
          /\ classes' = Append(classes, new_cls)
          /\ last' = [op |-> "__new__", cls_name |-> cls_name, target |-> target,
                       replaced |-> Replaced(target, name),
                       inherits |-> inherits_in_development(bases, class_dict)]
  /\ UNCHANGED <<_skip_registration, is_notebook, guards>>

\* Mutant: the marker is read from the class (getattr), so an inherited
\* IN_DEVELOPMENT counts.
New_InheritedMarker(cls_name, bases, class_dict) ==
  LET name == camelcase_to_snakecase(cls_name)
      new_cls == builder_cls(cls_name, bases, class_dict)
      error == CollisionCheck(is_notebook, name, _DATASET_REGISTRY,
                              _IN_DEVELOPMENT_REGISTRY, _ABSTRACT_DATASET_REGISTRY)
      target == Classify(_skip_registration, new_cls.abstract,
                         in_development(class_dict)
                           \/ inherits_in_development(bases, class_dict))
      id == Len(classes) + 1
  IN
  /\ raised = NoError
  /\ Len(classes) < MaxClasses
  /\ IF error # NoError
     THEN /\ raised' = error
          /\ last' = [op |-> "__new__", cls_name |-> cls_name, target |-> "none",
                       replaced |-> 0, inherits |-> FALSE]
          /\ UNCHANGED <<registries, classes>>
     ELSE /\ raised' = NoError
          /\ classes' = Append(classes, new_cls)
          /\ last' = [op |-> "__new__", cls_name |-> cls_name, target |-> target,
                       replaced |-> Replaced(target, name),
                       inherits |-> inherits_in_development(bases, class_dict)]
          /\ Store(target, name, id)
  /\ UNCHANGED <<_skip_registration, is_notebook, guards>>

\* RegisteredDataset.__new__(cls, cls_name, bases, class_dict)
New(cls_name, bases, class_dict) ==
  LET name == camelcase_to_snakecase(cls_name)
      new_cls == builder_cls(cls_name, bases, class_dict)
      error == CollisionCheck(is_notebook, name, _DATASET_REGISTRY,
                              _IN_DEVELOPMENT_REGISTRY, _ABSTRACT_DATASET_REGISTRY)
      target == Classify(_skip_registration, new_cls.abstract,
                         in_development(class_dict))
      id == Len(classes) + 1
  IN
  /\ raised = NoError
  /\ Len(classes) < MaxClasses
  /\ IF error # NoError
     THEN /\ raised' = error
          /\ last' = [op |-> "__new__", cls_name |-> cls_name, target |-> "none",
                       replaced |-> 0, inherits |-> FALSE]
          /\ UNCHANGED <<registries, classes>>
     ELSE /\ raised' = NoError
          /\ classes' = Append(classes, new_cls)
          /\ last' = [op |-> "__new__", cls_name |-> cls_name, target |-> target,
                       replaced |-> Replaced(target, name),
                       inherits |-> inherits_in_development(bases, class_dict)]
          /\ Store(target, name, id)
  /\ UNCHANGED <<_skip_registration, is_notebook, guards>>

\* skip_registration(), up to the yield: the with-block is entered.
skip_registration ==
  /\ raised = NoError
  /\ guards < MaxGuards
  /\ _skip_registration' = TRUE
  /\ guards' = guards + 1
  /\ last' = [op |-> "enter", cls_name |-> <<>>, target |-> "none", replaced |-> 0,
              inherits |-> FALSE]
  /\ UNCHANGED <<registries, is_notebook, classes, raised>>

\* Mutant: no try/finally, the flag is reset only when the block ends normally.
skip_registration_no_finally ==
  /\ guards > 0
  /\ _skip_registration' = (IF raised = NoError THEN FALSE ELSE _skip_registration)
  /\ guards' = guards - 1
  /\ last' = [op |-> "exit", cls_name |-> <<>>, target |-> "none", replaced |-> 0,
              inherits |-> FALSE]
  /\ UNCHANGED <<registries, is_notebook, classes, raised>>

\* Mutant: the exit restores the value the flag had at entry.
skip_registration_restore ==
  /\ guards > 0
  /\ _skip_registration' = (guards > 1)
  /\ guards' = guards - 1
  /\ last' = [op |-> "exit", cls_name |-> <<>>, target |-> "none", replaced |-> 0,
              inherits |-> FALSE]
  /\ UNCHANGED <<registries, is_notebook, classes, raised>>

\* skip_registration(), the finally clause: the with-block is left, by
\* reaching its end or by an error that keeps propagating.
skip_registration_finally ==
  /\ guards > 0
  /\ _skip_registration' = FALSE
  /\ guards' = guards - 1
  /\ last' = [op |-> "exit", cls_name |-> <<>>, target |-> "none", replaced |-> 0,
              inherits |-> FALSE]
  /\ UNCHANGED <<registries, is_notebook, classes, raised>>

\* The caller of the class statement catches the error.
Caught ==
  /\ raised # NoError
  /\ raised' = NoError
  /\ last' = [op |-> "except", cls_name |-> <<>>, target |-> "none", replaced |-> 0,
              inherits |-> FALSE]
  /\ UNCHANGED <<registries, _skip_registration, is_notebook, classes, guards>>

Next ==
  \/ \E cls_name \in ClassNames, bases \in Bases, class_dict \in ClassDicts :
       New(cls_name, bases, class_dict)
  \/ skip_registration
  \/ skip_registration_finally
  \/ Caught

Spec == Init /\ [][Next]_vars

-----------------------------------------------------------------------------
(* Vocabulary of the properties *)

\* The step is a call of __new__ (every operation records itself in last).
NewStep == last'.op = "__new__" /\ vars' # vars

\* The call of __new__ of this step, or the last one, returned a class.
Returned == last.op = "__new__" /\ raised = NoError

\* The class a call of __new__ has just returned, and its index.
newest == classes[Len(classes)]

\* Indices of the classes that some registry holds.
Range(registry) == { registry[k] : k \in DOMAIN registry }

Registered ==
  Range(_DATASET_REGISTRY) \cup Range(_IN_DEVELOPMENT_REGISTRY)
    \cup Range(_ABSTRACT_DATASET_REGISTRY)

-----------------------------------------------------------------------------
(* Properties *)

\* C1: in every reachable state, in any environment, a normalized name is a
\* key of at most one of the three registries.
C1_AtMostOneTable ==
  /\ DOMAIN _DATASET_REGISTRY \cap DOMAIN _ABSTRACT_DATASET_REGISTRY = {}
  /\ DOMAIN _DATASET_REGISTRY \cap DOMAIN _IN_DEVELOPMENT_REGISTRY = {}
  /\ DOMAIN _ABSTRACT_DATASET_REGISTRY \cap DOMAIN _IN_DEVELOPMENT_REGISTRY = {}

\* C2: outside a notebook, a call of __new__ whose normalized name is
\* already a key of a registry raises the ValueError that names that
\* registry and returns no class, whether the skip flag is set or not.
C2_DuplicateRaises ==
  [][ (NewStep /\ ~is_notebook) =>
        LET name == camelcase_to_snakecase(last'.cls_name) IN
        /\ name \in DOMAIN _DATASET_REGISTRY =>
             /\ raised' = <<"Dataset with name", name, "already registered.">>
             /\ classes' = classes
        /\ name \in DOMAIN _IN_DEVELOPMENT_REGISTRY =>
             /\ raised' = <<"Dataset with name", name,
                            "already registered as in development.">>
             /\ classes' = classes
        /\ name \in DOMAIN _ABSTRACT_DATASET_REGISTRY =>
             /\ raised' = <<"Dataset with name", name,
                            "already registered as abstract.">>
             /\ classes' = classes ]_vars

\* A duplicate of an abstract class was rejected while the skip flag was set.
C2_Witness ==
  /\ ~is_notebook
  /\ last.op = "__new__"
  /\ _skip_registration
  /\ camelcase_to_snakecase(last.cls_name) \in DOMAIN _ABSTRACT_DATASET_REGISTRY
  /\ raised = <<"Dataset with name", camelcase_to_snakecase(last.cls_name),
                "already registered as abstract.">>

\* C3 as stated: no two classes that __new__ returned have the same
\* normalized name (the later creation would have raised).
C3_NoTwoClassesWithOneName ==
  \A i, j \in 1..Len(classes) : i # j => classes[i].name # classes[j].name

\* C3, amended: outside a notebook, a call of __new__ whose normalized name
\* is the name of an earlier class that a registry holds raises and returns
\* no class.
C3_RegisteredNameRaises ==
  [][ ( /\ NewStep
        /\ ~is_notebook
        /\ \E i \in Registered :
             classes[i].name = camelcase_to_snakecase(last'.cls_name) )
      => (raised' # NoError /\ classes' = classes) ]_vars

\* A class with another declared name and the same normalized name as a
\* registered class was rejected.
C3_Witness ==
  /\ ~is_notebook
  /\ last.op = "__new__"
  /\ raised # NoError
  /\ last.cls_name = <<"a", "B">>
  /\ \E i \in Registered : classes[i].name = <<"a", "_", "b">>
  /\ Len(classes) = 1

\* C4: an abstract class that __new__ returns while the skip flag is not
\* set is stored in the abstract registry under its normalized name, and
\* neither the concrete nor the in-development registry receives it, also
\* when its body sets IN_DEVELOPMENT; no abstract class is ever held by
\* those two registries.
C4_AbstractGoesToAbstract ==
  [][ /\ (NewStep /\ raised' = NoError /\ ~_skip_registration
            /\ classes'[Len(classes')].abstract)
          => /\ camelcase_to_snakecase(last'.cls_name)
                  \in DOMAIN _ABSTRACT_DATASET_REGISTRY'
             /\ _ABSTRACT_DATASET_REGISTRY'[camelcase_to_snakecase(last'.cls_name)]
                  = Len(classes')
             /\ _DATASET_REGISTRY' = _DATASET_REGISTRY
             /\ _IN_DEVELOPMENT_REGISTRY' = _IN_DEVELOPMENT_REGISTRY
      /\ \A i \in Range(_DATASET_REGISTRY') \cup Range(_IN_DEVELOPMENT_REGISTRY') :
           ~classes'[i].abstract ]_vars

\* An abstract class whose body sets IN_DEVELOPMENT went to the abstract
\* registry.
C4_Witness ==
  /\ Returned
  /\ ~_skip_registration
  /\ newest.abstract
  /\ newest.IN_DEVELOPMENT
  /\ newest.name \in DOMAIN _ABSTRACT_DATASET_REGISTRY
  /\ _ABSTRACT_DATASET_REGISTRY[newest.name] = Len(classes)

\* C5: a non-abstract class that __new__ returns while the skip flag is not
\* set is stored under its normalized name in the in-development registry
\* and not in the concrete one when its body sets IN_DEVELOPMENT to true,
\* and in the concrete registry otherwise.
C5_InDevelopmentOrConcrete ==
  [][ (NewStep /\ raised' = NoError /\ ~_skip_registration
         /\ ~classes'[Len(classes')].abstract)
      => LET name == camelcase_to_snakecase(last'.cls_name)
             id == Len(classes')
         IN IF classes'[id].IN_DEVELOPMENT
            THEN /\ name \in DOMAIN _IN_DEVELOPMENT_REGISTRY'
                 /\ _IN_DEVELOPMENT_REGISTRY'[name] = id
                 /\ id \notin Range(_DATASET_REGISTRY')
                 /\ _DATASET_REGISTRY' = _DATASET_REGISTRY
            ELSE /\ name \in DOMAIN _DATASET_REGISTRY'
                 /\ _DATASET_REGISTRY'[name] = id ]_vars

\* A non-abstract class whose body sets IN_DEVELOPMENT went to the
\* in-development registry.
C5_Witness ==
  /\ Returned
  /\ ~_skip_registration
  /\ ~newest.abstract
  /\ newest.IN_DEVELOPMENT
  /\ newest.name \in DOMAIN _IN_DEVELOPMENT_REGISTRY
  /\ _IN_DEVELOPMENT_REGISTRY[newest.name] = Len(classes)
  /\ newest.name \notin DOMAIN _DATASET_REGISTRY

\* C6: a call of __new__ between the entry and the exit of a
\* skip_registration() block leaves the three registries unchanged.
C6_NoRegistrationInsideGuard ==
  [][ (NewStep /\ guards > 0) => registries' = registries ]_vars

\* C7: entering skip_registration() sets the flag; leaving it, at the end of
\* the block or by an error raised inside it, clears the flag; a class
\* created next, with the flag still clear, is stored in a registry.
C7_FlagSetThenCleared ==
  [][ /\ last'.op = "enter" => _skip_registration'
      /\ guards' < guards => ~_skip_registration'
      /\ (last.op \in {"exit", "except"} /\ ~_skip_registration
            /\ NewStep /\ raised' = NoError)
          => Len(classes') \in Range(_DATASET_REGISTRY')
               \cup Range(_IN_DEVELOPMENT_REGISTRY')
               \cup Range(_ABSTRACT_DATASET_REGISTRY') ]_vars

\* A block was left by the duplicate-registration error of a class
\* statement inside it.
C7_Witness ==
  /\ last.op = "exit"
  /\ raised # NoError
  /\ raised[1] = "Dataset with name"
  /\ ~_skip_registration

\* C8: a call of __new__ that raises leaves the three registries and the
\* skip flag as they were.
C8_FailureChangesNothing ==
  [][ (NewStep /\ raised' # NoError)
      => (registries' = registries /\ _skip_registration' = _skip_registration) ]_vars

\* A creation was rejected while registries were not empty.
C8_Witness ==
  /\ last.op = "__new__"
  /\ raised # NoError
  /\ Registered # {}

\* The registries, by name.
Table(target) ==
  IF target = "_ABSTRACT_DATASET_REGISTRY" THEN _ABSTRACT_DATASET_REGISTRY
  ELSE IF target = "_IN_DEVELOPMENT_REGISTRY" THEN _IN_DEVELOPMENT_REGISTRY
  ELSE _DATASET_REGISTRY

TableNames ==
  {"_DATASET_REGISTRY", "_IN_DEVELOPMENT_REGISTRY", "_ABSTRACT_DATASET_REGISTRY"}

\* C9: a call of __new__ that returns with the skip flag clear changes
\* exactly one registry, and only at the class's normalized name; the other
\* two registries, the other keys and the flag are unchanged.  With the
\* flag set it changes no registry.
C9_ExactlyOneEntry ==
  [][ (NewStep /\ raised' = NoError)
      => LET name == camelcase_to_snakecase(last'.cls_name) IN
         /\ _skip_registration' = _skip_registration
         /\ IF _skip_registration
            THEN registries' = registries
            ELSE \E t \in TableNames :
                   /\ Table(t)' # Table(t)
                   /\ DOMAIN Table(t)' = DOMAIN Table(t) \cup {name}
                   /\ \A k \in DOMAIN Table(t) \ {name} : Table(t)'[k] = Table(t)[k]
                   /\ \A u \in TableNames \ {t} : Table(u)' = Table(u) ]_vars

\* A class was stored next to an entry under another name in its registry.
C9_Witness ==
  /\ Returned
  /\ ~_skip_registration
  /\ \E t \in TableNames :
       /\ newest.name \in DOMAIN Table(t)
       /\ Table(t)[newest.name] = Len(classes)
       /\ DOMAIN Table(t) # {newest.name}

\* C10: in a notebook no call of __new__ raises, and with the skip flag
\* clear the class it returns takes the place of any earlier entry under
\* its normalized name in the registry of its own classification.
C10_NotebookOverwrites ==
  [][ (NewStep /\ is_notebook)
      => LET name == camelcase_to_snakecase(last'.cls_name)
             id == Len(classes')
             t == IF classes'[id].abstract THEN "_ABSTRACT_DATASET_REGISTRY"
                  ELSE IF classes'[id].IN_DEVELOPMENT THEN "_IN_DEVELOPMENT_REGISTRY"
                  ELSE "_DATASET_REGISTRY"
         IN /\ raised' = NoError
            /\ id = Len(classes) + 1
            /\ ~_skip_registration
                 => LET table == IF t = "_ABSTRACT_DATASET_REGISTRY"
                                   THEN _ABSTRACT_DATASET_REGISTRY'
                                 ELSE IF t = "_IN_DEVELOPMENT_REGISTRY"
                                   THEN _IN_DEVELOPMENT_REGISTRY'
                                 ELSE _DATASET_REGISTRY'
                    IN name \in DOMAIN table /\ table[name] = id ]_vars

\* In a notebook a class took the place of an earlier one in the concrete
\* registry.
C10_Witness ==
  /\ is_notebook
  /\ Returned
  /\ last.replaced # 0
  /\ last.replaced # Len(classes)
  /\ ~newest.abstract /\ ~newest.IN_DEVELOPMENT
  /\ _DATASET_REGISTRY[newest.name] = Len(classes)

\* C11: every class held by a registry is held under the key equal to its
\* own name attribute, and the name attribute of every class that __new__
\* returns, with the skip flag set or clear, is the normalized form of its
\* declared class name.
C11_KeyIsNameAttribute ==
  [][ /\ \A t \in TableNames : \A k \in DOMAIN Table(t)' :
           classes'[Table(t)'[k]].name = k
      /\ (NewStep /\ raised' = NoError)
          => classes'[Len(classes')].name = camelcase_to_snakecase(last'.cls_name) ]_vars

\* A class created under the skip flag has the normalized form of its
\* declared name, which differs from the declared name, while a registered
\* class sits under its own name.
C11_Witness ==
  /\ Returned
  /\ _skip_registration
  /\ last.cls_name = <<"a", "B">>
  /\ newest.name = <<"a", "_", "b">>
  /\ \E k \in DOMAIN _DATASET_REGISTRY : classes[_DATASET_REGISTRY[k]].name = k

\* C12: outside a notebook no operation removes or replaces an entry: a
\* name that a registry maps to a class is, after every step, still mapped
\* by the same registry to the same class.
C12_BindingsAreStable ==
  [][ ~is_notebook =>
        \A t \in TableNames : \A k \in DOMAIN Table(t) :
          /\ k \in DOMAIN Table(t)'
          /\ Table(t)'[k] = Table(t)[k]
          /\ classes'[Table(t)'[k]] = classes[Table(t)[k]] ]_vars

\* Outside a notebook a registry holds two entries and a later creation
\* under one of their names has just been rejected.
C12_Witness ==
  /\ ~is_notebook
  /\ last.op = "__new__"
  /\ raised # NoError
  /\ \E t \in TableNames :
       /\ Cardinality(DOMAIN Table(t)) = 2
       /\ camelcase_to_snakecase(last.cls_name) \in DOMAIN Table(t)

Unclaimed(name) ==
  /\ name \notin DOMAIN _DATASET_REGISTRY
  /\ name \notin DOMAIN _IN_DEVELOPMENT_REGISTRY
  /\ name \notin DOMAIN _ABSTRACT_DATASET_REGISTRY

\* C14: a class created under the skip flag reserves no name: a call of
\* __new__ whose normalized name is a key of no registry never raises; with
\* the flag set it leaves the name a key of no registry, however many such
\* classes were created before, and with the flag clear it stores the class.
C14_SkippedClassReservesNothing ==
  [][ (NewStep /\ Unclaimed(camelcase_to_snakecase(last'.cls_name)))
      => /\ raised' = NoError
         /\ classes' = Append(classes, classes'[Len(classes')])
         /\ IF _skip_registration
            THEN registries' = registries
            ELSE Len(classes') \in Range(_DATASET_REGISTRY')
                   \cup Range(_IN_DEVELOPMENT_REGISTRY')
                   \cup Range(_ABSTRACT_DATASET_REGISTRY') ]_vars

\* Outside a notebook two classes with one name were created under the
\* skip flag, and a third class with that name, created after the block,
\* is the only registered one.
C14_Witness ==
  /\ ~is_notebook
  /\ Returned
  /\ guards = 0
  /\ Len(classes) = 3
  /\ \A i \in 1..3 : classes[i].name = newest.name
  /\ Registered = {3}

\* C15: a non-abstract class whose body does not declare IN_DEVELOPMENT and
\* whose base sets IN_DEVELOPMENT to true in its body, returned by __new__
\* with the skip flag clear, is stored in the concrete registry and not in
\* the in-development registry.
C15_OwnBodyOnly ==
  [][ (NewStep /\ raised' = NoError /\ ~_skip_registration
         /\ last'.inherits /\ ~classes'[Len(classes')].abstract)
      => LET name == camelcase_to_snakecase(last'.cls_name)
             id == Len(classes')
         IN /\ name \in DOMAIN _DATASET_REGISTRY'
            /\ _DATASET_REGISTRY'[name] = id
            /\ id \notin Range(_IN_DEVELOPMENT_REGISTRY')
            /\ _IN_DEVELOPMENT_REGISTRY' = _IN_DEVELOPMENT_REGISTRY ]_vars

\* A class that inherits the marker from a base, created while the
\* in-development registry holds a class, is itself in the concrete registry.
C15_Witness ==
  /\ Returned
  /\ ~_skip_registration
  /\ last.inherits
  /\ ~newest.abstract
  /\ _IN_DEVELOPMENT_REGISTRY # <<>>
  /\ newest.name \in DOMAIN _DATASET_REGISTRY
  /\ _DATASET_REGISTRY[newest.name] = Len(classes)
  /\ Len(classes) \notin Range(_IN_DEVELOPMENT_REGISTRY)

TypeOK ==
  /\ _skip_registration \in BOOLEAN
  /\ is_notebook \in BOOLEAN
  /\ guards \in 0..MaxGuards
  /\ Len(classes) <= MaxClasses

====
